---- MODULE Spec2Model ----
(***************************************************************************)
(* Model of app.py: the Flask log-intelligence backend.                    *)
(*                                                                         *)
(* State: the process-wide table `df`, the file logs.tsv on disk, the      *)
(* position of the upload handler, and the last response of a handler.     *)
(* Text is a sequence of one-character strings, so that tokenizing,        *)
(* numeric parsing, whitespace splitting, formatting and pattern matching  *)
(* are computed and not assumed.                                           *)
(***************************************************************************)
EXTENDS Integers, Sequences, FiniteSets, TLC

VARIABLES
    df,      \* the global frame of line 22
    file,    \* the contents of logs.tsv, or Absent
    src,     \* what read_csv read in the latest upload call (Absent: nothing)
    upc,     \* where the upload handler stands
    upResp,  \* the response of the latest upload call
    resp     \* the response of the reader request being answered

vars == <<df, file, src, upc, upResp, resp>>

(***************************************************************************)
(* Characters and text helpers                                             *)
(***************************************************************************)
TAB == "\t"
NL == "\n"
QUOTE == "\""
SP == " "

Digits == <<"0", "1", "2", "3", "4", "5", "6", "7", "8", "9">>

IsDigit(c) == \E i \in 1..10 : Digits[i] = c

DigitVal(c) == (CHOOSE i \in 1..10 : Digits[i] = c) - 1

\* Python int(text) for a text of decimal digits.
RECURSIVE ToInt(_)
ToInt(s) ==
    IF s = <<>> THEN 0
    ELSE 10 * ToInt(SubSeq(s, 1, Len(s) - 1)) + DigitVal(s[Len(s)])

\* Python str(n) for n >= 0.
RECURSIVE IntToStr(_)
IntToStr(n) ==
    IF n < 10 THEN <<Digits[n + 1]>>
    ELSE IntToStr(n \div 10) \o <<Digits[(n % 10) + 1]>>

\* Zero-padded two-digit rendering (%d, %H, %M, %S of strftime).
D2(n) == <<Digits[(n \div 10) + 1], Digits[(n % 10) + 1]>>

Upper == <<"A", "B", "C", "D", "E", "F", "G", "T", "X">>
Lower == <<"a", "b", "c", "d", "e", "f", "g", "t", "x">>

\* str.lower() on one character, as re.IGNORECASE folds it.
LowerChar(c) ==
    IF \E i \in 1..Len(Upper) : Upper[i] = c
    THEN Lower[CHOOSE i \in 1..Len(Upper) : Upper[i] = c]
    ELSE c

LowerStr(s) == [i \in 1..Len(s) |-> LowerChar(s[i])]

RECURSIVE SumSeq(_)
SumSeq(s) == IF s = <<>> THEN 0 ELSE s[1] + SumSeq(Tail(s))

RECURSIVE FilterIdx(_, _, _)
\* The indices i of 1..n, ascending, with keep[i].
FilterIdx(keep, i, n) ==
    IF i > n THEN <<>>
    ELSE (IF keep[i] THEN <<i>> ELSE <<>>) \o FilterIdx(keep, i + 1, n)

(***************************************************************************)
(* Cells: one value of a pandas column.                                    *)
(*   k = "str"   s is the text           (object column)                  *)
(*   k = "int"   n is the value          (int64 column)                   *)
(*   k = "float" n is the integral value (float64 column)                 *)
(*   k = "inf"   positive infinity       (float64 column)                 *)
(*   k = "nan"   NaN / None / NaT-as-text                                  *)
(***************************************************************************)
StrCell(s) == [k |-> "str", s |-> s, n |-> 0]
IntCell(n) == [k |-> "int", s |-> <<>>, n |-> n]
FloatCell(n) == [k |-> "float", s |-> <<>>, n |-> n]
InfCell == [k |-> "inf", s |-> <<>>, n |-> 0]
NaNCell == [k |-> "nan", s |-> <<>>, n |-> 0]
\* A datetime64 value, in seconds since the epoch, and the null datetime.
TsCell(n) == [k |-> "ts", s |-> <<>>, n |-> n]
NaTCell == [k |-> "nat", s |-> <<>>, n |-> 0]
\* The column is not in the frame.
Missing == [k |-> "missing", s |-> <<>>, n |-> 0]

\* Python str(v) of a cell value, as astype(str) and str(k) render it.
PyStr(c) ==
    CASE c.k = "str" -> c.s
      [] c.k = "int" -> IntToStr(c.n)
      [] c.k = "float" -> IntToStr(c.n) \o <<".", "0">>
      [] c.k = "inf" -> <<"i", "n", "f">>
      [] OTHER -> <<"n", "a", "n">>

(***************************************************************************)
(* pd.read_csv(path, sep='\t', header=None, names=column_names,            *)
(*             on_bad_lines='skip', encoding='latin1', low_memory=False)   *)
(***************************************************************************)
column_names == <<"host", "dash", "time_epoch", "method", "url", "status", "bytes">>

NCols == Len(column_names)

\* The file does not exist (os.path.isfile is False, open() raises).
Absent == <<"ENOENT">>

\* The tokenizer of the C parser over the decoded buffer (latin1 decodes any
\* byte, so decoding never fails), one record at a time, from character i.
\* st: "SR" start of record, "SF" start of field, "IF" in field, "IQ" in
\* quoted field, "QQ" quote seen in quoted field; cur is the physical line of
\* character i.  The result is a record ("rec"), a blank line, which
\* skip_blank_lines=True drops ("blank"), the end of the buffer ("eof"), or
\* the end of the buffer inside a quoted field, which is an error whatever
\* on_bad_lines says ("err").
RECURSIVE Tok(_, _, _, _, _, _)
Tok(buf, i, st, fld, line, cur) ==
    LET endField == Append(line, fld)
        out(kind, f, next, c) == [kind |-> kind, f |-> f, next |-> next, cur |-> c]
    IN
    IF i > Len(buf) THEN
        CASE st = "SR" -> out("eof", <<>>, i, cur)
          [] st = "IQ" -> out("err", <<>>, i, cur)
          [] OTHER -> out("rec", endField, i, cur)
    ELSE
        LET c == buf[i]
            cur2 == IF c = NL THEN cur + 1 ELSE cur
        IN
        CASE st = "SR" /\ c = NL -> out("blank", <<>>, i + 1, cur2)
          [] st \in {"SR", "SF"} /\ c = QUOTE ->
                Tok(buf, i + 1, "IQ", <<>>, line, cur2)
          [] st \in {"SR", "SF", "IF", "QQ"} /\ c = TAB ->
                Tok(buf, i + 1, "SF", <<>>, endField, cur2)
          [] st \in {"SF", "IF", "QQ"} /\ c = NL -> out("rec", endField, i + 1, cur2)
          [] st = "IQ" /\ c = QUOTE ->
                Tok(buf, i + 1, "QQ", fld, line, cur2)
          [] st = "QQ" /\ c = QUOTE ->
                Tok(buf, i + 1, "IQ", Append(fld, c), line, cur2)
          [] st = "IQ" ->
                Tok(buf, i + 1, "IQ", Append(fld, c), line, cur2)
          [] OTHER ->
                Tok(buf, i + 1, "IF", Append(fld, c), line, cur2)

RECURSIVE TokenizeFrom(_, _, _)
\* The records from character i on: err, or each record's fields f and the
\* physical line no it starts on.
TokenizeFrom(buf, i, cur) ==
    LET r == Tok(buf, i, "SR", <<>>, <<>>, cur)
    IN CASE r.kind = "eof" -> [err |-> FALSE, lines |-> <<>>]
         [] r.kind = "err" -> [err |-> TRUE, lines |-> <<>>]
         [] r.kind = "blank" -> TokenizeFrom(buf, r.next, r.cur)
         [] OTHER ->
              LET rest == TokenizeFrom(buf, r.next, r.cur)
              IN [err |-> rest.err,
                  lines |-> IF rest.err THEN <<>>
                            ELSE <<[no |-> cur, f |-> r.f]>> \o rest.lines]

Tokenize(buf) == TokenizeFrom(buf, 1, 1)

\* end_line of the tokenizer with names passed and header=None: the first
\* record is never a bad line; the expected width is the larger of its width
\* and len(names); a later record with more fields is skipped, one with fewer
\* is padded with empty fields.
ExpectedFields(lines) ==
    IF Len(lines[1].f) > NCols THEN Len(lines[1].f) ELSE NCols

KeptLines(lines) ==
    IF lines = <<>> THEN <<>>
    ELSE LET ex == ExpectedFields(lines)
             idx == FilterIdx([i \in 1..Len(lines) |->
                                  i = 1 \/ Len(lines[i].f) <= ex],
                              1, Len(lines))
         IN [j \in 1..Len(idx) |-> lines[idx[j]]]

Pad(f, ex) == [c \in 1..ex |-> IF c <= Len(f) THEN f[c] ELSE <<>>]

\* The raw text under each name: with more fields than names the leading
\* fields become the index and the names label the trailing len(names) fields.
RawRows(lines) ==
    LET kept == KeptLines(lines)
    IN IF kept = <<>> THEN <<>>
       ELSE LET ex == ExpectedFields(lines)
                lead == ex - NCols
            IN [j \in 1..Len(kept) |->
                   [c \in 1..NCols |-> Pad(kept[j].f, ex)[lead + c]]]

\* Default NA markers of read_csv that occur over the modelled alphabet.
NAValues == {<<>>, <<"N", "A">>, <<"n", "a", "n">>}

IsNA(t) == t \in NAValues

INF == <<"i", "n", "f">>

IsDigits(t) == t # <<>> /\ \A i \in 1..Len(t) : IsDigit(t[i])

IsNumericText(t) == IsDigits(t) \/ t = INF

\* Column dtype inference over the whole column (low_memory=False).
ColKind(texts) ==
    IF \E i \in 1..Len(texts) : ~IsNA(texts[i]) /\ ~IsNumericText(texts[i])
    THEN "object"
    ELSE IF \E i \in 1..Len(texts) : IsNA(texts[i]) \/ texts[i] = INF
         THEN "float"
         ELSE "int"

TypeCell(kind, t) ==
    IF IsNA(t) THEN NaNCell
    ELSE IF kind = "object" THEN StrCell(t)
    ELSE IF t = INF THEN InfCell
    ELSE IF kind = "float" THEN FloatCell(ToInt(t))
    ELSE IntCell(ToInt(t))

\* The frame read_csv builds from the text of the file: err on a tokenizer
\* error, else the typed 7-column rows and the physical line number each row
\* came from.  A text with no record gives a frame with no rows (names are
\* passed, so the columns are known).
ParseText(buf) ==
    LET t == Tokenize(buf)
    IN IF t.err THEN [err |-> TRUE, rows |-> <<>>, lines |-> <<>>]
       ELSE LET raw == RawRows(t.lines)
                kind == [c \in 1..NCols |->
                            ColKind([j \in 1..Len(raw) |-> raw[j][c]])]
            IN [err |-> FALSE,
                rows |-> [j \in 1..Len(raw) |->
                            [n \in {column_names[c] : c \in 1..NCols} |->
                               LET c == CHOOSE c \in 1..NCols : column_names[c] = n
                               IN TypeCell(kind[c], raw[j][c])]],
                lines |-> [j \in 1..Len(raw) |-> KeptLines(t.lines)[j].no]]

\* A read_csv that raises on a file with no data, as it does without names.
ReadCsvEmptyRaises(buf) ==
    IF buf = Absent \/ buf = <<>>
    THEN [err |-> TRUE, rows |-> <<>>, lines |-> <<>>]
    ELSE ParseText(buf)

\* read_csv(path, ...): opening a missing file raises.
ReadCsv(buf) ==
    IF buf = Absent
    THEN [err |-> TRUE, rows |-> <<>>, lines |-> <<>>]
    ELSE ParseText(buf)

(***************************************************************************)
(* The frame: df is None, or a set of columns and the rows under them.     *)
(* A row maps every column name of AllCols to a cell; a column the frame   *)
(* does not hold is Missing in every row.                                  *)
(***************************************************************************)
RawCols == {column_names[c] : c \in 1..NCols}

FinalCols == {"host", "time", "request", "status", "bytes", "dt"}

AllCols == RawCols \cup FinalCols

NoneDf == [none |-> TRUE, cols |-> {}, rows |-> <<>>]

Frame(cols, rows) == [none |-> FALSE, cols |-> cols, rows |-> rows]

\* df[name] = values: add or replace one column.
SetCol(d, name, values) ==
    Frame(d.cols \cup {name},
          [j \in 1..Len(d.rows) |-> [d.rows[j] EXCEPT ![name] = values[j]]])

\* df[[...]]: keep the listed columns only.
Project(d, keep) ==
    Frame(keep,
          [j \in 1..Len(d.rows) |->
              [c \in AllCols |-> IF c \in keep THEN d.rows[j][c] ELSE Missing]])

Col(d, name) == [j \in 1..Len(d.rows) |-> d.rows[j][name]]

\* line 54: the frame read_csv returns.
RawFrame(rows) ==
    Frame(RawCols,
          [j \in 1..Len(rows) |->
              [c \in AllCols |-> IF c \in RawCols THEN rows[j][c] ELSE Missing]])

\* line 68: df['method'].astype(str) + " " + df['url'].astype(str)
RequestOf(method, url) == StrCell(PyStr(method) \o <<SP>> \o PyStr(url))

\* line 72: pd.to_datetime(x, unit='s', errors='coerce') of one value.  A
\* number is that many seconds; NaN, infinity and text that is no number are
\* NaT; numeric text in an object column is read as a number.
ToDatetime(c) ==
    CASE c.k \in {"int", "float"} -> TsCell(c.n)
      [] c.k = "str" /\ IsDigits(c.s) -> TsCell(ToInt(c.s))
      [] OTHER -> NaTCell

\* line 75: strftime('%d/%b/%Y:%H:%M:%S'), for instants of January 1970; NaT
\* formats to NaN.
Strftime(c) ==
    IF c.k # "ts" THEN NaNCell
    ELSE StrCell(D2(1 + (c.n \div 86400)) \o <<"/", "J", "a", "n", "/">>
                 \o IntToStr(1970) \o <<":">> \o D2((c.n % 86400) \div 3600)
                 \o <<":">> \o D2((c.n % 3600) \div 60)
                 \o <<":">> \o D2(c.n % 60))

\* pd.to_numeric(x, errors='coerce') of one value.
ToNumeric(c) ==
    CASE c.k \in {"int", "float", "inf", "nan"} -> c
      [] c.k = "str" /\ IsDigits(c.s) -> IntCell(ToInt(c.s))
      [] c.k = "str" /\ c.s = INF -> InfCell
      [] OTHER -> NaNCell

\* .fillna(0)
FillNa0(c) == IF c.k = "nan" THEN FloatCell(0) ELSE c

\* The column is float64 as soon as one value is a float, infinite or NaN.
IsFloatCol(cells) ==
    \E j \in 1..Len(cells) : cells[j].k \in {"float", "inf", "nan"}

AsFloat(c) == IF c.k = "int" THEN FloatCell(c.n) ELSE c

\* line 78: .astype(int) raises on a non-finite value.
StatusRaises(d) ==
    \E j \in 1..Len(d.rows) : ToNumeric(d.rows[j]["status"]).k = "inf"

StatusClean(d) ==
    [j \in 1..Len(d.rows) |-> IntCell(FillNa0(ToNumeric(d.rows[j]["status"])).n)]

\* line 79
BytesClean(d) ==
    LET num == [j \in 1..Len(d.rows) |-> ToNumeric(d.rows[j]["bytes"])]
    IN [j \in 1..Len(num) |->
           IF IsFloatCol(num) THEN AsFloat(FillNa0(num[j])) ELSE num[j]]

(***************************************************************************)
(* Responses.  One shape for every handler; the fields a handler does not  *)
(* set keep the values of NoResp.  err names the exception that escaped    *)
(* the handler (Flask answers 500); q is the query string of the request.  *)
(***************************************************************************)
NoResp ==
    [op |-> "none", q |-> <<>>, code |-> 0, err |-> "", total |-> 0, unique_ips |-> 0,
     error_rate_pct |-> 0, top_5_ips |-> <<>>, top_5_endpoints |-> <<>>,
     requests_over_time |-> <<>>, count |-> 0, results |-> <<>>]

Raised(op, exc) == [NoResp EXCEPT !.op = op, !.code = 500, !.err = exc]

WithQuery(r, raw) == [r EXCEPT !.q = raw]

(***************************************************************************)
(* /stats                                                                  *)
(***************************************************************************)
TOP_K == 5

HeadN(s, n) == SubSeq(s, 1, IF Len(s) < n THEN Len(s) ELSE n)

RECURSIVE Uniq(_)
\* The distinct values of s in order of first occurrence.
Uniq(s) ==
    IF s = <<>> THEN <<>>
    ELSE LET u == Uniq(SubSeq(s, 1, Len(s) - 1))
             x == s[Len(s)]
         IN IF \E i \in 1..Len(u) : u[i] = x THEN u ELSE Append(u, x)

\* Series.dropna() of a sequence of cells, as for value_counts and nunique.
DropNa(cells) ==
    LET idx == FilterIdx([j \in 1..Len(cells) |-> cells[j].k # "nan"], 1, Len(cells))
    IN [i \in 1..Len(idx) |-> cells[idx[i]]]

\* The value counts before sorting: one entry per distinct non-null value,
\* in order of first occurrence (the order of the hash table).
Counted(cells) ==
    LET keys == [j \in 1..Len(DropNa(cells)) |-> PyStr(DropNa(cells)[j])]
        u == Uniq(keys)
    IN [i \in 1..Len(u) |->
           [key |-> u[i],
            count |-> Cardinality({j \in 1..Len(keys) : keys[j] = u[i]})]]

\* value_counts() sorts by count, descending, with sort_values' default
\* kind='quicksort', which is no stable sort: the order among equal counts is
\* whatever the sort of the platform's numpy leaves.  Every order with
\* non-increasing counts is possible.
SortOrders(entries) ==
    {p \in Permutations(1..Len(entries)) :
        \A i, j \in 1..Len(entries) :
            i < j => entries[p[i]].count >= entries[p[j]].count}

\* Series.value_counts().head(5): the possible results.
ValueCountsHead(cells) ==
    LET e == Counted(cells)
    IN {HeadN([i \in 1..Len(e) |-> e[p[i]]], TOP_K) : p \in SortOrders(e)}

\* str.split(): the maximal runs of non-whitespace characters.
RECURSIVE SplitWs(_, _)
SplitWs(s, cur) ==
    IF s = <<>> THEN (IF cur = <<>> THEN <<>> ELSE <<cur>>)
    ELSE IF s[1] = SP
         THEN (IF cur = <<>> THEN <<>> ELSE <<cur>>) \o SplitWs(Tail(s), <<>>)
         ELSE SplitWs(Tail(s), Append(cur, s[1]))

\* .str.split().str[1]: the second token, NaN when there is none.
SecondToken(c) ==
    LET t == SplitWs(c.s, <<>>)
    IN IF Len(t) >= 2 THEN StrCell(t[2]) ELSE NaNCell

\* round(100.0 * error_count / total, 2), in hundredths of a percent,
\* rounding half to even.
ErrorRatePct(error_count, total) ==
    LET num == 10000 * error_count
        q == num \div total
        r == num % total
    IN IF 2 * r > total \/ (2 * r = total /\ q % 2 = 1) THEN q + 1 ELSE q

IsErrorStatus(c) == c.k \in {"int", "float"} /\ c.n >= 400 /\ c.n < 600

\* str(Timestamp) of an instant of January 1970.
TsStr(n) ==
    IntToStr(1970) \o <<"-", "0", "1", "-">> \o D2(1 + (n \div 86400))
    \o <<SP>> \o D2((n % 86400) \div 3600) \o <<":">> \o D2((n % 3600) \div 60)
    \o <<":">> \o D2(n % 60)

SECONDS_PER_HOUR == 3600

\* A grouping by hour that lists only the hours that hold a record.
ByHourNoGaps(dts) ==
    LET valid == {j \in 1..Len(dts) : dts[j].k = "ts"}
        hours == Uniq([j \in 1..Len(dts) |->
                          IF j \in valid THEN dts[j].n \div SECONDS_PER_HOUR ELSE 0 - 1])
        idx == FilterIdx([i \in 1..Len(hours) |-> hours[i] >= 0], 1, Len(hours))
    IN [i \in 1..Len(idx) |->
           [time |-> TsStr(hours[idx[i]] * SECONDS_PER_HOUR),
            count |-> Cardinality({j \in valid :
                         dts[j].n \div SECONDS_PER_HOUR = hours[idx[i]]})]]

\* df.set_index('dt').resample('h').size(): one bin per hour from the hour of
\* the earliest instant to the hour of the latest; rows whose index is NaT
\* fall in no bin; an index with no valid instant gives no bin.
ByHour(dts) ==
    LET valid == {j \in 1..Len(dts) : dts[j].k = "ts"}
    IN IF valid = {} THEN <<>>
       ELSE LET hour(j) == dts[j].n \div SECONDS_PER_HOUR
                first == CHOOSE h \in {hour(j) : j \in valid} :
                             \A j \in valid : h <= hour(j)
                last == CHOOSE h \in {hour(j) : j \in valid} :
                            \A j \in valid : h >= hour(j)
            IN [i \in 1..(last - first + 1) |->
                   [time |-> TsStr((first + i - 1) * SECONDS_PER_HOUR),
                    count |-> Cardinality({j \in valid : hour(j) = first + i - 1})]]

\* lines 121-127: a frame without the 'dt' column raises KeyError, which the
\* handler turns into [].
RequestsOverTime(d) == IF "dt" \in d.cols THEN ByHour(Col(d, "dt")) ELSE <<>>

IsEmptyDf(d) == d.none \/ d.rows = <<>>

ZeroStats == [NoResp EXCEPT !.op = "stats", !.code = 200]

\* The responses stats() can give on the frame d.
StatsOutcomes(d) ==
    IF IsEmptyDf(d) THEN {ZeroStats}
    ELSE IF \E j \in 1..Len(d.rows) : d.rows[j]["status"].k = "str"
         THEN {Raised("stats", "TypeError")}
    ELSE IF "request" \notin d.cols THEN {Raised("stats", "KeyError")}
    ELSE LET total == Len(d.rows)
             hosts == DropNa(Col(d, "host"))
             unique_ips == Cardinality({PyStr(hosts[j]) : j \in 1..Len(hosts)})
             error_count ==
                 Cardinality({j \in 1..total : IsErrorStatus(d.rows[j]["status"])})
             tokens == [j \in 1..total |-> SecondToken(d.rows[j]["request"])]
         IN {[NoResp EXCEPT !.op = "stats", !.code = 200, !.total = total,
                            !.unique_ips = unique_ips,
                            !.error_rate_pct = ErrorRatePct(error_count, total),
                            !.top_5_ips = ips, !.top_5_endpoints = eps,
                            !.requests_over_time = RequestsOverTime(d)] :
                ips \in ValueCountsHead(Col(d, "host")),
                eps \in ValueCountsHead(tokens)}

(***************************************************************************)
(* /search                                                                 *)
(***************************************************************************)
MAX_RESULTS == 50

RECURSIVE LStrip(_)
LStrip(s) == IF s # <<>> /\ s[1] = SP THEN LStrip(Tail(s)) ELSE s

RECURSIVE RStrip(_)
RStrip(s) ==
    IF s # <<>> /\ s[Len(s)] = SP THEN RStrip(SubSeq(s, 1, Len(s) - 1)) ELSE s

\* str.strip()
Strip(s) == RStrip(LStrip(s))

\* str.contains(q, case=False) compiles q as a regular expression.
\* re.compile raises re.error on an unclosed group, and on a repeat with
\* nothing before it or right after another repeat.
CompileRaises(p) ==
    \/ \E i \in 1..Len(p) : p[i] = "("
    \/ \E i \in 1..Len(p) : p[i] = "*" /\ (i = 1 \/ p[i - 1] = "*")

\* One pattern character against one character of the text, ignoring case.
AtomMatches(a, c) == a = "." \/ LowerChar(a) = LowerChar(c)

RECURSIVE MatchHere(_, _)
\* The compiled pattern p matches a prefix of s.
MatchHere(p, s) ==
    IF p = <<>> THEN TRUE
    ELSE IF Len(p) >= 2 /\ p[2] = "*"
         THEN \E k \in 0..Len(s) :
                 /\ \A i \in 1..k : AtomMatches(p[1], s[i])
                 /\ MatchHere(SubSeq(p, 3, Len(p)), SubSeq(s, k + 1, Len(s)))
         ELSE /\ s # <<>>
              /\ AtomMatches(p[1], s[1])
              /\ MatchHere(Tail(p), Tail(s))

\* re.search(p, s, re.IGNORECASE) finds a match.
ReSearch(p, s) == \E i \in 1..(Len(s) + 1) : MatchHere(p, SubSeq(s, i, Len(s)))

\* One record of to_dict(orient='records') with every value but 'dt' as
\* str(v); a column the frame does not hold is no key of the record.
NoKey == <<"">>

RowToStrings(d, row) ==
    [c \in AllCols \ {"dt"} |-> IF c \in d.cols THEN PyStr(row[c]) ELSE NoKey]

\* The response of search() for the raw query string on the frame d.
SearchOutcome(d, raw) ==
    LET q == Strip(raw)
    IN WithQuery(
       IF IsEmptyDf(d) \/ q = <<>>
       THEN [NoResp EXCEPT !.op = "search", !.code = 200]
       ELSE IF "request" \notin d.cols THEN Raised("search", "KeyError")
       ELSE IF CompileRaises(q) THEN Raised("search", "re.error")
       ELSE LET mask == [j \in 1..Len(d.rows) |-> ReSearch(q, PyStr(d.rows[j]["request"]))]
                idx == HeadN(FilterIdx(mask, 1, Len(d.rows)), MAX_RESULTS)
                results == [i \in 1..Len(idx) |-> RowToStrings(d, d.rows[idx[i]])]
            IN [NoResp EXCEPT !.op = "search", !.code = 200,
                              !.count = Len(results), !.results = results],
       raw)

(***************************************************************************)
(* The contents logs.tsv can have.                                         *)
(***************************************************************************)
RECURSIVE JoinTab(_)
JoinTab(fields) ==
    IF Len(fields) = 1 THEN fields[1]
    ELSE fields[1] \o <<TAB>> \o JoinTab(Tail(fields))

RECURSIVE FileOf(_)
\* The text of a file from its lines, each ended by a newline.
FileOf(lines) ==
    IF lines = <<>> THEN <<>>
    ELSE lines[1] \o <<NL>> \o FileOf(Tail(lines))

GET == <<"G", "E", "T">>
UrlX == <<"/", "x">>
UrlAb == <<"/", "A", "b">>
Dash == <<"-">>
S200 == <<"2", "0", "0">>
S404 == <<"4", "0", "4">>
T3600 == <<"3", "6", "0", "0">>
T10900 == <<"1", "0", "9", "0", "0">>

Line(host, t, method, url, status, bytes) ==
    JoinTab(<<host, Dash, t, method, url, status, bytes>>)

LineA == Line(<<"A">>, T3600, GET, UrlX, S200, <<"1", "0">>)
LineB == Line(<<"B">>, T10900, GET, UrlAb, S404, <<"7">>)
LineShort == JoinTab(<<<<"C">>, Dash, <<"7">>>>)
LineLong == JoinTab(<<<<"D">>, Dash, <<"7">>, GET, UrlX, S200, <<"1", "0">>, <<"Z">>>>)
LineBlank == Line(<<>>, <<>>, <<>>, UrlX, <<"a", "b", "c">>, <<>>)
LineInf == Line(<<"E">>, <<"7">>, GET, UrlX, INF, <<"1", "0">>)
LineQuote == Line(<<"F">>, <<"7">>, GET, <<QUOTE, "/", "x">>, S200, <<"1", "0">>)
LineNoTok == Line(<<"A">>, <<"7">>, <<SP>>, UrlX, S200, <<"1", "0">>)
LineOf(host) == Line(<<host>>, T3600, GET, UrlX, S200, <<"1", "0">>)

HostNames == <<"A", "B", "C", "D", "E", "F", "G">>

\* The number of distinct hosts, one line each, of the largest file.
NumTiedHosts == 6

FilePool ==
    <<  <<>>,
        FileOf(<<LineA, LineB>>),
        FileOf(<<LineA, <<>>, LineShort>>),
        FileOf(<<LineA, LineLong>>),
        FileOf(<<LineLong, LineA>>),
        FileOf(<<LineA, LineB, LineBlank>>),
        FileOf(<<LineBlank>>),
        FileOf(<<LineA, LineInf>>),
        FileOf(<<LineA, LineQuote>>),
        FileOf(<<LineA, LineNoTok>>),
        FileOf([i \in 1..NumTiedHosts |-> LineOf(HostNames[i])])  >>

Files == {FilePool[i] : i \in 1..Len(FilePool)} \cup {Absent}

\* The query strings a client sends: every text of up to MaxQueryLen
\* characters of QChars.
MaxQueryLen == 2

QChars == {"a", "X", ".", "(", "*", SP}

Queries == UNION {[1..n -> QChars] : n \in 0..MaxQueryLen}

(***************************************************************************)
(* The state machine                                                       *)
(***************************************************************************)
UpOk(n) == [code |-> 200, count |-> n]
UpFail(code) == [code |-> code, count |-> 0]
UpNone == [code |-> 0, count |-> 0]

Init ==
    /\ df = NoneDf
    /\ file \in Files
    /\ src = Absent
    /\ upc = "idle"
    /\ upResp = UpNone
    /\ resp = NoResp

\* Something outside the server replaces, creates or removes logs.tsv.  The
\* handler reads the file at lines 39 and 54 only, so a change while it is
\* past line 54 is the same as a change after it returned.
WriteFile ==
    /\ resp = NoResp
    /\ upc \in {"idle", "returned", "read_csv"}
    /\ \E f \in Files : f # file /\ file' = f
    /\ UNCHANGED <<df, src, upc, upResp, resp>>

\* lines 38-40: a request arrives; 404 when the file is missing.
Upload_isfile ==
    /\ resp = NoResp
    /\ upc \in {"idle", "returned"}
    /\ IF file = Absent
       THEN upc' = "returned" /\ upResp' = UpFail(404)
       ELSE upc' = "read_csv" /\ upResp' = UpNone
    /\ src' = Absent
    /\ UNCHANGED <<df, file, resp>>

\* lines 54-62: read_csv; its result is bound to the global df at once.  An
\* exception leaves df as it was and the handler answers 500.
Upload_read_csv ==
    /\ resp = NoResp
    /\ upc = "read_csv"
    /\ LET r == ReadCsv(file)
       IN IF r.err
          THEN /\ upc' = "returned"
               /\ upResp' = UpFail(500)
               /\ UNCHANGED df
          ELSE /\ df' = RawFrame(r.rows)
               /\ upc' = "request"
               /\ UNCHANGED upResp
    /\ src' = file
    /\ UNCHANGED <<file, resp>>

\* line 68
Upload_request ==
    /\ resp = NoResp
    /\ upc = "request"
    /\ df' = SetCol(df, "request",
                    [j \in 1..Len(df.rows) |->
                        RequestOf(df.rows[j]["method"], df.rows[j]["url"])])
    /\ upc' = "dt"
    /\ UNCHANGED <<file, src, upResp, resp>>

\* line 72
Upload_dt ==
    /\ resp = NoResp
    /\ upc = "dt"
    /\ df' = SetCol(df, "dt",
                    [j \in 1..Len(df.rows) |-> ToDatetime(df.rows[j]["time_epoch"])])
    /\ upc' = "time"
    /\ UNCHANGED <<file, src, upResp, resp>>

\* line 75
Upload_time ==
    /\ resp = NoResp
    /\ upc = "time"
    /\ df' = SetCol(df, "time",
                    [j \in 1..Len(df.rows) |-> Strftime(df.rows[j]["dt"])])
    /\ upc' = "status"
    /\ UNCHANGED <<file, src, upResp, resp>>

\* line 78; astype(int) may raise, and then lines 86-88 answer 500 with df
\* left as the steps so far made it.
Upload_status ==
    /\ resp = NoResp
    /\ upc = "status"
    /\ IF StatusRaises(df)
       THEN /\ upc' = "returned"
            /\ upResp' = UpFail(500)
            /\ UNCHANGED df
       ELSE /\ df' = SetCol(df, "status", StatusClean(df))
            /\ upc' = "bytes"
            /\ UNCHANGED upResp
    /\ UNCHANGED <<file, src, resp>>

\* line 79
Upload_bytes ==
    /\ resp = NoResp
    /\ upc = "bytes"
    /\ df' = SetCol(df, "bytes", BytesClean(df))
    /\ upc' = "project"
    /\ UNCHANGED <<file, src, upResp, resp>>

\* lines 82-84: the projection and the success response.
Upload_project ==
    /\ resp = NoResp
    /\ upc = "project"
    /\ df' = Project(df, FinalCols)
    /\ upc' = "returned"
    /\ upResp' = UpOk(Len(df.rows))
    /\ UNCHANGED <<file, src, resp>>

\* /stats, served by another thread at any point of an upload.  resp holds
\* the response until Deliver hands it to the client; the frame it was
\* computed from is df of that state.
Stats ==
    /\ resp = NoResp
    /\ resp' \in StatsOutcomes(df)
    /\ UNCHANGED <<df, file, src, upc, upResp>>

\* /search?q=..., served by another thread at any point of an upload.
Search ==
    /\ resp = NoResp
    /\ \E q \in Queries : resp' = SearchOutcome(df, q)
    /\ UNCHANGED <<df, file, src, upc, upResp>>

\* The response of the reader leaves the server.
Deliver ==
    /\ resp # NoResp
    /\ resp' = NoResp
    /\ UNCHANGED <<df, file, src, upc, upResp>>

Next ==
    \/ WriteFile
    \/ Upload_isfile
    \/ Upload_read_csv
    \/ Upload_request
    \/ Upload_dt
    \/ Upload_time
    \/ Upload_status
    \/ Upload_bytes
    \/ Upload_project
    \/ Stats
    \/ Search
    \/ Deliver

Spec == Init /\ [][Next]_vars

(***************************************************************************)
(* Properties                                                              *)
(***************************************************************************)
\* The frame is a whole table: exactly the six derived columns.
Complete(d) == ~d.none /\ d.cols = FinalCols

\* No upload call is between its first and its last step.
Quiescent == upc \in {"idle", "returned"}

IsReader(r) == r.op \in {"stats", "search"}

\* C1: a reader that runs interleaved with an upload never observes a
\* half-built table: a frame with records that a reader computes its response
\* from is a whole table of derived records, never the raw 7-column frame or
\* a frame between the two.
C1_ReaderNeverSeesHalfBuilt ==
    (IsReader(resp) /\ ~IsEmptyDf(df)) => Complete(df)

\* C2: once an upload call has returned (200, 404 or 500) the table is the
\* previous one or a whole new one, so it is absent or a whole table; never a
\* partially derived frame.
C2_ReturnedUploadLeavesWholeTable ==
    upc = "returned" => (df.none \/ Complete(df))

\* The physical lines of a text: line k ends at the k-th newline.
NumLines(buf) ==
    Cardinality({i \in 1..Len(buf) : buf[i] = NL})
    + (IF buf # <<>> /\ buf[Len(buf)] # NL THEN 1 ELSE 0)

LineNoOf(buf, i) == 1 + Cardinality({j \in 1..(i - 1) : buf[j] = NL})

FieldCount(buf, k) ==
    1 + Cardinality({i \in 1..Len(buf) : buf[i] = TAB /\ LineNoOf(buf, i) = k})

SevenFieldLines(buf) ==
    FilterIdx([k \in 1..NumLines(buf) |-> FieldCount(buf, k) = NCols],
              1, NumLines(buf))

\* C3: a line is accepted into the table if and only if it has exactly 7
\* tab-separated fields; the accepted lines keep file order and the accepted
\* count is the number of such lines (dropped + accepted = total lines).
C3_AcceptedIffSevenFields ==
    (upc = "returned" /\ upResp.code = 200) =>
        /\ ReadCsv(src).lines = SevenFieldLines(src)
        /\ upResp.count = Len(SevenFieldLines(src))

\* C4: ingesting an existing, empty file succeeds with accepted count 0 and
\* leaves a whole table without records; afterwards getStats answers the
\* all-zero defaults and search answers count 0 with no results.
C4_EmptyFileIngests ==
    (upc = "returned" /\ src = <<>>) =>
        /\ upResp = UpOk(0)
        /\ Complete(df) /\ df.rows = <<>>
        /\ resp.op = "stats" => resp = ZeroStats
        /\ resp.op = "search" =>
              resp.code = 200 /\ resp.count = 0 /\ resp.results = <<>>

\* An empty file was ingested with success and search("X") was then served.
C4_Witness ==
    /\ upc = "returned" /\ src = <<>> /\ upResp.code = 200
    /\ resp.op = "search" /\ resp.q = <<"X">>

\* An empty file was ingested with success and getStats was then served.
C4_WitnessStats ==
    upc = "returned" /\ src = <<>> /\ upResp.code = 200 /\ resp.op = "stats"

\* C5: after any sequence of upload calls, getStats and search always
\* succeed, whatever the table and the query string: they answer 200 and no
\* exception escapes.
C5_ReadersAlwaysSucceed ==
    (Quiescent /\ (df.none \/ Complete(df)) /\ IsReader(resp)) =>
        (resp.code = 200 /\ resp.err = "")

\* q occurs in s as a literal substring, ignoring case.
LiteralContains(s, q) ==
    \E i \in 1..(Len(s) - Len(q) + 1) :
        LowerStr(SubSeq(s, i, i + Len(q) - 1)) = LowerStr(q)

LiteralResults(d, q) ==
    IF IsEmptyDf(d) \/ q = <<>> THEN <<>>
    ELSE LET mask == [j \in 1..Len(d.rows) |->
                         LiteralContains(PyStr(d.rows[j]["request"]), q)]
             idx == HeadN(FilterIdx(mask, 1, Len(d.rows)), MAX_RESULTS)
         IN [i \in 1..Len(idx) |-> RowToStrings(d, d.rows[idx[i]])]

\* C6: search(q) answers exactly the first min(50, m) records, in table
\* order, of the m records whose request contains q as a literal
\* case-insensitive substring, with count the number of records answered; an
\* empty query or table gives none.
C6_SearchIsLiteralSubstring ==
    (Quiescent /\ (df.none \/ Complete(df)) /\ resp.op = "search") =>
        /\ resp.code = 200
        /\ resp.results = LiteralResults(df, resp.q)
        /\ resp.count = Len(resp.results)

\* The entries by non-increasing count, equal counts in order of first
\* occurrence.
StableOrder(e) ==
    LET pos(i) == 1 + Cardinality({j \in 1..Len(e) :
                        \/ e[j].count > e[i].count
                        \/ e[j].count = e[i].count /\ j < i})
    IN [r \in 1..Len(e) |-> e[CHOOSE i \in 1..Len(e) : pos(i) = r]]

\* C7: top_5_ips lists at most 5 hosts, one per distinct host, those with
\* the highest counts, by non-increasing count, hosts of equal count ordered
\* and cut off by their first occurrence in the table (six hosts A..F once
\* each give A,B,C,D,E).
C7_TopIpsTiesByFirstOccurrence ==
    (Quiescent /\ Complete(df) /\ resp.op = "stats" /\ resp.code = 200
       /\ df.rows # <<>>) =>
        resp.top_5_ips = HeadN(StableOrder(Counted(Col(df, "host"))), TOP_K)

\* The key the claim ranks a record under: the second whitespace-delimited
\* token of its request, or the whole request when there is none.
RankingKey(request) ==
    LET t == SplitWs(request, <<>>)
    IN IF Len(t) >= 2 THEN t[2] ELSE request

\* C8: every record is ranked under the second token of its request, or
\* under its whole request when it has no second token, so before the top-5
\* cut the counts of the ranking keys sum to the number of records.
C8_EndpointCountsCoverEveryRecord ==
    (Quiescent /\ Complete(df) /\ resp.op = "stats" /\ resp.code = 200
       /\ Len(resp.top_5_endpoints) < TOP_K) =>
        /\ SumSeq([i \in 1..Len(resp.top_5_endpoints) |->
                      resp.top_5_endpoints[i].count]) = resp.total
        /\ \A j \in 1..Len(df.rows) :
              \E i \in 1..Len(resp.top_5_endpoints) :
                  resp.top_5_endpoints[i].key = RankingKey(df.rows[j]["request"].s)

\* The rows with a valid parsed_time, and the hour each falls in.
ValidTimes(d) == {j \in 1..Len(d.rows) : d.rows[j]["dt"].k = "ts"}

HourOf(d, j) == d.rows[j]["dt"].n \div SECONDS_PER_HOUR

\* C9: requests_over_time has one entry per 1-hour bucket from the bucket of
\* the earliest valid parsed_time to that of the latest, in chronological
\* order, empty buckets included with count 0; records without a valid
\* parsed_time are left out of it but counted in total; the counts sum to the
\* number of records with a valid parsed_time; no valid parsed_time at all
\* gives the empty sequence.
C9_RequestsOverTimeBuckets ==
    (resp.op = "stats" /\ resp.code = 200 /\ ~IsEmptyDf(df)) =>
        LET rot == resp.requests_over_time
            valid == ValidTimes(df)
        IN /\ resp.total = Len(df.rows)
           /\ SumSeq([i \in 1..Len(rot) |-> rot[i].count]) = Cardinality(valid)
           /\ valid = {} => rot = <<>>
           /\ valid # {} =>
                \E first \in {HourOf(df, j) : j \in valid} :
                    /\ \A j \in valid : first <= HourOf(df, j)
                    /\ \E j \in valid : HourOf(df, j) = first + Len(rot) - 1
                    /\ \A j \in valid : HourOf(df, j) <= first + Len(rot) - 1
                    /\ \A i \in 1..Len(rot) :
                          /\ rot[i].time = TsStr((first + i - 1) * SECONDS_PER_HOUR)
                          /\ rot[i].count =
                               Cardinality({j \in valid : HourOf(df, j) = first + i - 1})

\* A table with a null parsed_time, two valid ones and an empty bucket
\* between them.
C9_Witness ==
    /\ resp.op = "stats" /\ resp.code = 200 /\ Complete(df)
    /\ \E j \in 1..Len(df.rows) : df.rows[j]["dt"].k = "nat"
    /\ \E i \in 1..Len(resp.requests_over_time) :
          resp.requests_over_time[i].count = 0
    /\ Len(resp.requests_over_time) >= 3

\* A table whose records all have a null parsed_time.
C9_WitnessAllNull ==
    /\ resp.op = "stats" /\ resp.code = 200 /\ Complete(df)
    /\ df.rows # <<>> /\ ValidTimes(df) = {}

\* The text of column c of the j-th accepted line of the file.
RawField(buf, j, c) == RawRows(Tokenize(buf).lines)[j][c]

\* C10: after a successful ingestion every record has a non-null host, a
\* request that is literally method + " " + url (an empty side stays empty),
\* an integer status and a numeric bytes, status and bytes being 0 when their
\* raw text is missing or not numeric.
C10_RecordFieldsDerived ==
    (upc = "returned" /\ upResp.code = 200) =>
        \A j \in 1..Len(df.rows) :
            /\ df.rows[j]["host"].k # "nan"
            /\ df.rows[j]["request"].s =
                  RawField(src, j, 4) \o <<SP>> \o RawField(src, j, 5)
            /\ df.rows[j]["status"].k = "int"
            /\ df.rows[j]["bytes"].k \in {"int", "float", "inf"}
            /\ ~IsNumericText(RawField(src, j, 6)) => df.rows[j]["status"].n = 0
            /\ ~IsNumericText(RawField(src, j, 7)) => df.rows[j]["bytes"].n = 0

====
